---- MODULE Spec2Model ----
(***************************************************************************)
(* Model of chord_finder.py: pitch naming, octave reduction, mode          *)
(* expansion, chord search and printing.                                   *)
(*                                                                         *)
(* Python strings whose characters matter (pitch names, chord names,       *)
(* labels, printed lines) are sequences of code points, so that            *)
(* `'b' in s`, str.format padding and sorted() are computed, not assumed.  *)
(* Mode names are only ever used as dictionary keys and stay TLA+ strings. *)
(***************************************************************************)
EXTENDS Integers, Sequences, FiniteSets, TLC

VARIABLES
    \* reset_octave, one loop iteration at a time
    num0, num, rpc,
    \* generate_pitch_names as a call
    starting_pitch, sharped, gret, gpc,
    \* convert_seps as a call
    lst, sret, spc,
    \* chord_finder
    argv, cfg_file, pc, modes, intervals, pitch_names, mode_lst,
    dct, ri, root, possible_chords, ci, pk, pl, out, err

resetVars == <<num0, num, rpc>>
pitchVars == <<starting_pitch, sharped, gret, gpc>>
sepsVars  == <<lst, sret, spc>>
mainVars  == <<argv, cfg_file, pc, modes, intervals, pitch_names, mode_lst,
               dct, ri, root, possible_chords, ci, pk, pl, out, err>>
vars == <<resetVars, pitchVars, sepsVars, mainVars>>

----------------------------------------------------------------------------
(* Bounds of the checked input spaces *)

MaxNum == 40
MaxSepLen == 3
MaxChords == 3

----------------------------------------------------------------------------
(* Sequence helpers *)

Range(s) == {s[i] : i \in 1..Len(s)}

RECURSIVE SumSeq(_)
SumSeq(s) == IF s = <<>> THEN 0 ELSE s[1] + SumSeq(Tail(s))

\* s.index(x) for x known to be in s, counted from 1
IndexOf(s, x) == CHOOSE i \in 1..Len(s) : s[i] = x /\ \A j \in 1..(i-1) : s[j] # x

\* Python's ordering of two strings: code point by code point, a proper
\* prefix sorts first
RECURSIVE StrLess(_, _)
StrLess(a, b) ==
    IF b = <<>> THEN FALSE
    ELSE IF a = <<>> THEN TRUE
    ELSE IF a[1] # b[1] THEN a[1] < b[1]
    ELSE StrLess(Tail(a), Tail(b))

\* sorted(v) of a list of strings
sorted(v) == SortSeq(v, StrLess)

----------------------------------------------------------------------------
(* reset_octave *)

NotPossible == -1

RECURSIVE reset_octave(_)
reset_octave(n) ==
    IF n < 0
    THEN (IF n + 12 > 11 THEN NotPossible ELSE reset_octave(n + 12))
    ELSE IF n > 11
    THEN (IF n - 12 < 0 THEN NotPossible ELSE reset_octave(n - 12))
    ELSE n

ResetIdle == num0 = 0 /\ num = 0 /\ rpc = "idle"

ResetInit == num0 \in (-MaxNum)..MaxNum /\ num = num0 /\ rpc = "while_neg"

\* while num < 0: num += 12; if num > 11: raise
WhileNegOvershoot ==
    /\ rpc = "while_neg"
    /\ IF num < 0
       THEN /\ num' = num + 24
            /\ rpc' = IF num' > 11 THEN "raised" ELSE "while_neg"
       ELSE /\ num' = num
            /\ rpc' = "while_pos"
    /\ UNCHANGED <<num0, pitchVars, sepsVars, mainVars>>

WhileNeg ==
    /\ rpc = "while_neg"
    /\ IF num < 0
       THEN /\ num' = num + 12
            /\ rpc' = IF num' > 11 THEN "raised" ELSE "while_neg"
       ELSE /\ num' = num
            /\ rpc' = "while_pos"
    /\ UNCHANGED <<num0, pitchVars, sepsVars, mainVars>>

\* while num > 11: num -= 12; if num < 0: raise; then return num
WhilePosOffByOne ==
    /\ rpc = "while_pos"
    /\ IF num > 12
       THEN /\ num' = num - 12
            /\ rpc' = IF num' < 0 THEN "raised" ELSE "while_pos"
       ELSE /\ num' = num
            /\ rpc' = "returned"
    /\ UNCHANGED <<num0, pitchVars, sepsVars, mainVars>>

WhilePos ==
    /\ rpc = "while_pos"
    /\ IF num > 11
       THEN /\ num' = num - 12
            /\ rpc' = IF num' < 0 THEN "raised" ELSE "while_pos"
       ELSE /\ num' = num
            /\ rpc' = "returned"
    /\ UNCHANGED <<num0, pitchVars, sepsVars, mainVars>>

ResetNext == WhileNeg \/ WhilePos

----------------------------------------------------------------------------
(* generate_pitch_names *)

\* 'C C# D D# E F F# G G# A A# B'.split(' ')
SharpNames ==
    << <<67>>, <<67, 35>>, <<68>>, <<68, 35>>, <<69>>, <<70>>, <<70, 35>>,
       <<71>>, <<71, 35>>, <<65>>, <<65, 35>>, <<66>> >>

\* 'C Db D Eb E F Gb G Ab A Bb B'.split(' ')
FlatNames ==
    << <<67>>, <<68, 98>>, <<68>>, <<69, 98>>, <<69>>, <<70>>, <<71, 98>>,
       <<71>>, <<65, 98>>, <<65>>, <<66, 98>>, <<66>> >>

\* if 'b' in starting_pitch and sharped: sharped = False
ResolvedSharped(sp, sh) ==
    IF (\E i \in 1..Len(sp) : sp[i] = 98) /\ sh THEN FALSE ELSE sh

PitchNameList(sh) == IF sh THEN SharpNames ELSE FlatNames

\* pitches[starting_pitch] raises KeyError unless the name is in the list
PitchKnown(sp, sh) == sp \in Range(PitchNameList(ResolvedSharped(sp, sh)))

\* d[k] = v on a dict that is only ever looked up by key
DictPut(d, k, v) == [x \in (DOMAIN d) \cup {k} |-> IF x = k THEN v ELSE d[x]]

\* {f(i): k for i, k in enumerate(names)}, i counted from 0
RECURSIVE RotatedNames(_, _, _, _)
RotatedNames(names, shift, i, d) ==
    IF i > Len(names) THEN d
    ELSE RotatedNames(names, shift, i + 1,
                      DictPut(d, reset_octave((i - 1) + shift), names[i]))

generate_pitch_names_plus(sp, sh) ==
    LET names == PitchNameList(ResolvedSharped(sp, sh))
        diff  == (IndexOf(names, sp) - 1) - (IndexOf(names, <<67>>) - 1)
    IN  RotatedNames(names, diff, 1, <<>>)

generate_pitch_names(sp, sh) ==
    LET names == PitchNameList(ResolvedSharped(sp, sh))
        diff  == (IndexOf(names, sp) - 1) - (IndexOf(names, <<67>>) - 1)
    IN  RotatedNames(names, -diff, 1, <<>>)

\* the starting pitches tried: a letter A..H alone or with '#' or 'b',
\* and the lower-case names 'c' and 'b'
PitchArgs ==
    {<<l>> \o a : l \in 65..72, a \in {<<>>, <<35>>, <<98>>}}
        \cup {<<99>>, <<98>>}

PitchIdle ==
    starting_pitch = <<>> /\ sharped = TRUE /\ gret = <<>> /\ gpc = "idle"

PitchInit ==
    /\ starting_pitch \in PitchArgs
    /\ sharped \in BOOLEAN
    /\ gret = <<>>
    /\ gpc = "call"

GeneratePitchNames ==
    /\ gpc = "call"
    /\ IF PitchKnown(starting_pitch, sharped)
       THEN /\ gret' = generate_pitch_names(starting_pitch, sharped)
            /\ gpc' = "returned"
       ELSE /\ gret' = gret
            /\ gpc' = "KeyError"
    /\ UNCHANGED <<starting_pitch, sharped, resetVars, sepsVars, mainVars>>

PitchNext == GeneratePitchNames

----------------------------------------------------------------------------
(* convert_seps *)

MaxSep == 6
SepVals == (-1)..MaxSep

\* sum(lst[0:i]) in place of sum(lst[0:i+1])
convert_seps_slice(l) ==
    <<0>> \o [i \in 1..Len(l) |-> SumSeq(SubSeq(l, 1, i - 1))]

\* [0, ] + [sum(lst[0:i+1]) for i in range(len(list(lst)))]
convert_seps(l) ==
    <<0>> \o [i \in 1..Len(l) |-> SumSeq(SubSeq(l, 1, i))]

SepsIdle == lst = <<>> /\ sret = <<>> /\ spc = "idle"

SepsInit ==
    /\ lst \in UNION {[1..n -> SepVals] : n \in 0..MaxSepLen}
    /\ sret = <<>>
    /\ spc = "call"

ConvertSeps ==
    /\ spc = "call"
    /\ sret' = convert_seps(lst)
    /\ spc' = "returned"
    /\ UNCHANGED <<lst, resetVars, pitchVars, mainVars>>

SepsNext == ConvertSeps

----------------------------------------------------------------------------
(* chord_finder: configuration *)

\* a dict whose iteration order matters: a sequence of [key, val] in
\* insertion order; assigning to a present key keeps its position
HasKey(d, k) == \E i \in 1..Len(d) : d[i].key = k

DictGet(d, k) == d[CHOOSE i \in 1..Len(d) : d[i].key = k].val

OrderedPut(d, k, v) ==
    IF HasKey(d, k)
    THEN [i \in 1..Len(d) |-> IF d[i].key = k THEN [key |-> k, val |-> v] ELSE d[i]]
    ELSE Append(d, [key |-> k, val |-> v])

\* chord definitions a chord_config.yml may hold: name -> offsets from the root
\*   m: [3, 7]   m7: [3, 7, 10]   M: [4, 7]   min: [3, 7]   b2: [1]
ChordPool ==
    { [name |-> <<109>>,           offsets |-> <<3, 7>>],
      [name |-> <<109, 55>>,       offsets |-> <<3, 7, 10>>],
      [name |-> <<77>>,            offsets |-> <<4, 7>>],
      [name |-> <<109, 105, 110>>, offsets |-> <<3, 7>>],
      [name |-> <<98, 50>>,        offsets |-> <<1>>] }

\* mode definitions of the config: name -> separations between steps
ModeDefs ==
    "major"     :> <<2, 2, 1, 2, 2, 2, 1>> @@
    "chromatic" :> <<1, 1, 1, 1, 1, 1, 1, 1, 1, 1, 1, 1>> @@
    "tri"       :> <<4, 3, 5>> @@
    "wide"      :> <<4, 4, 5>>

\* the chord_definitions mapping in file order: its keys are distinct names
ChordDefSeqs ==
    {s \in UNION {[1..n -> ChordPool] : n \in 0..MaxChords} :
        \A i, j \in 1..Len(s) : i # j => s[i].name # s[j].name}

MissingFile ==
    [present |-> FALSE, chord_definitions |-> <<>>, mode_definitions |-> ModeDefs]

ConfigFiles ==
    {MissingFile} \cup
    {[present |-> TRUE, chord_definitions |-> s, mode_definitions |-> ModeDefs] :
        s \in ChordDefSeqs}

\* argv[1]: 'C', 'G', 'Db', 'Cb'
MainPitches == {<<67>>, <<71>>, <<68, 98>>, <<67, 98>>}

\* argv[2]
ModeArgs == (DOMAIN ModeDefs) \cup {"nosuchmode"}

\* {tuple(eval(v)): k for k, v in cfg['chord_definitions'].items()}
RECURSIVE InvertDefs(_, _, _)
InvertDefs(defs, i, d) ==
    IF i > Len(defs) THEN d
    ELSE InvertDefs(defs, i + 1, OrderedPut(d, defs[i].offsets, defs[i].name))

\* {k: convert_seps(v) for k, v in cfg['mode_definitions'].items()}
ConvertModes(md) == [k \in DOMAIN md |-> convert_seps(md[k])]

----------------------------------------------------------------------------
(* chord_finder: naming and search *)

\* "{0: <2}{1:}".format(pitch_dct[root], chord_intervals[interval_tup])
Pad2(s) == IF Len(s) >= 2 THEN s ELSE s \o [i \in 1..(2 - Len(s)) |-> 32]

name_chord(r, it, pitch_dct, chord_intervals) ==
    Pad2(pitch_dct[r]) \o DictGet(chord_intervals, it)

\* all([reset_octave(root + x) in mode for x in it]), with the mode reduced first
ChordFitsReduced(r, it, mode) ==
    \A i \in 1..Len(it) :
        reset_octave(r + it[i]) \in {reset_octave(m) : m \in Range(mode)}

\* root + x looked up without bringing it back into the octave
ChordFitsNoWrap(r, it, mode) ==
    \A i \in 1..Len(it) : (r + it[i]) \in Range(mode)

\* all([reset_octave(root + x) in mode for x in it])
ChordFits(r, it, mode) ==
    \A i \in 1..Len(it) : reset_octave(r + it[i]) \in Range(mode)

\* ' - {}'.format(x)
Line(x) == <<32, 45, 32>> \o x

----------------------------------------------------------------------------
(* chord_finder: the run *)

MainIdle ==
    /\ argv = [pitch |-> <<>>, mode |-> ""]
    /\ cfg_file = MissingFile
    /\ pc = "idle"
    /\ modes = <<>> /\ intervals = <<>> /\ pitch_names = <<>>
    /\ mode_lst = <<>> /\ dct = <<>>
    /\ ri = 1 /\ root = 0 /\ possible_chords = <<>> /\ ci = 1
    /\ pk = 1 /\ pl = 1 /\ out = <<>> /\ err = "none"

MainInit ==
    /\ argv \in [pitch : MainPitches, mode : ModeArgs]
    /\ cfg_file \in ConfigFiles
    /\ pc = "proc_config_info"
    /\ modes = <<>> /\ intervals = <<>> /\ pitch_names = <<>>
    /\ mode_lst = <<>> /\ dct = <<>>
    /\ ri = 1 /\ root = 0 /\ possible_chords = <<>> /\ ci = 1
    /\ pk = 1 /\ pl = 1 /\ out = <<>> /\ err = "none"

\* modes, intervals = proc_config_info('chord_config.yml')
ProcConfigInfo ==
    /\ pc = "proc_config_info"
    /\ IF cfg_file.present
       THEN /\ intervals' = InvertDefs(cfg_file.chord_definitions, 1, <<>>)
            /\ modes' = ConvertModes(cfg_file.mode_definitions)
            /\ pc' = "generate_pitch_names"
            /\ err' = err
       ELSE /\ pc' = "failed"
            /\ err' = "config"
            /\ UNCHANGED <<modes, intervals>>
    /\ UNCHANGED <<argv, cfg_file, pitch_names, mode_lst, dct, ri, root,
                   possible_chords, ci, pk, pl, out>>
    /\ UNCHANGED <<resetVars, pitchVars, sepsVars>>

\* an unknown pitch is reported but the run goes on with the names from C
PitchNamesLenient ==
    /\ pc = "generate_pitch_names"
    /\ IF PitchKnown(argv.pitch, TRUE)
       THEN /\ pitch_names' = generate_pitch_names(argv.pitch, TRUE)
            /\ err' = err
       ELSE /\ pitch_names' = generate_pitch_names(<<67>>, TRUE)
            /\ err' = "pitch"
    /\ pc' = "modes[mode]"
    /\ UNCHANGED <<argv, cfg_file, modes, intervals, mode_lst, dct, ri, root,
                   possible_chords, ci, pk, pl, out>>
    /\ UNCHANGED <<resetVars, pitchVars, sepsVars>>

\* pitch_names = generate_pitch_names(starting_pitch=pitch)
PitchNames ==
    /\ pc = "generate_pitch_names"
    /\ IF PitchKnown(argv.pitch, TRUE)
       THEN /\ pitch_names' = generate_pitch_names(argv.pitch, TRUE)
            /\ pc' = "modes[mode]"
            /\ err' = err
       ELSE /\ pc' = "failed"
            /\ err' = "pitch"
            /\ pitch_names' = pitch_names
    /\ UNCHANGED <<argv, cfg_file, modes, intervals, mode_lst, dct, ri, root,
                   possible_chords, ci, pk, pl, out>>
    /\ UNCHANGED <<resetVars, pitchVars, sepsVars>>

\* mode_lst = modes[mode]; get_possible_chords starts with dct = {}
LookupMode ==
    /\ pc = "modes[mode]"
    /\ IF argv.mode \in DOMAIN modes
       THEN /\ mode_lst' = modes[argv.mode]
            /\ pc' = "for_root"
            /\ err' = err
       ELSE /\ pc' = "failed"
            /\ err' = "mode"
            /\ mode_lst' = mode_lst
    /\ dct' = <<>>
    /\ ri' = 1
    /\ UNCHANGED <<argv, cfg_file, modes, intervals, pitch_names, root,
                   possible_chords, ci, pk, pl, out>>
    /\ UNCHANGED <<resetVars, pitchVars, sepsVars>>

\* for root in mode: root = reset_octave(root); possible_chords = []
ForRoot ==
    /\ pc = "for_root"
    /\ ri <= Len(mode_lst)
    /\ root' = reset_octave(mode_lst[ri])
    /\ possible_chords' = <<>>
    /\ ci' = 1
    /\ pc' = "for_it"
    /\ UNCHANGED <<argv, cfg_file, modes, intervals, pitch_names, mode_lst,
                   dct, ri, pk, pl, out, err>>
    /\ UNCHANGED <<resetVars, pitchVars, sepsVars>>

ForItReduced ==
    /\ pc = "for_it"
    /\ ci <= Len(intervals)
    /\ possible_chords' =
          IF ChordFitsReduced(root, intervals[ci].key, mode_lst)
          THEN Append(possible_chords,
                      name_chord(root, intervals[ci].key, pitch_names, intervals))
          ELSE possible_chords
    /\ ci' = ci + 1
    /\ UNCHANGED <<argv, cfg_file, pc, modes, intervals, pitch_names, mode_lst,
                   dct, ri, root, pk, pl, out, err>>
    /\ UNCHANGED <<resetVars, pitchVars, sepsVars>>

\* for it in chord_intervals.keys(): if all([...]): possible_chords.append(...)
ForIt ==
    /\ pc = "for_it"
    /\ ci <= Len(intervals)
    /\ possible_chords' =
          IF ChordFits(root, intervals[ci].key, mode_lst)
          THEN Append(possible_chords,
                      name_chord(root, intervals[ci].key, pitch_names, intervals))
          ELSE possible_chords
    /\ ci' = ci + 1
    /\ UNCHANGED <<argv, cfg_file, pc, modes, intervals, pitch_names, mode_lst,
                   dct, ri, root, pk, pl, out, err>>
    /\ UNCHANGED <<resetVars, pitchVars, sepsVars>>

\* dct[root] = possible_chords without the test for an empty list
RecordRootAlways ==
    /\ pc = "for_it"
    /\ ci > Len(intervals)
    /\ dct' = OrderedPut(dct, root, possible_chords)
    /\ ri' = ri + 1
    /\ pc' = "for_root"
    /\ UNCHANGED <<argv, cfg_file, modes, intervals, pitch_names, mode_lst,
                   root, possible_chords, ci, pk, pl, out, err>>
    /\ UNCHANGED <<resetVars, pitchVars, sepsVars>>

\* the labels of a root met again are added to those already recorded
RecordRootExtend ==
    /\ pc = "for_it"
    /\ ci > Len(intervals)
    /\ dct' = IF possible_chords = <<>> THEN dct
              ELSE IF HasKey(dct, root)
              THEN OrderedPut(dct, root, DictGet(dct, root) \o possible_chords)
              ELSE OrderedPut(dct, root, possible_chords)
    /\ ri' = ri + 1
    /\ pc' = "for_root"
    /\ UNCHANGED <<argv, cfg_file, modes, intervals, pitch_names, mode_lst,
                   root, possible_chords, ci, pk, pl, out, err>>
    /\ UNCHANGED <<resetVars, pitchVars, sepsVars>>

\* if possible_chords: dct[root] = possible_chords
RecordRoot ==
    /\ pc = "for_it"
    /\ ci > Len(intervals)
    /\ dct' = IF possible_chords # <<>>
              THEN OrderedPut(dct, root, possible_chords)
              ELSE dct
    /\ ri' = ri + 1
    /\ pc' = "for_root"
    /\ UNCHANGED <<argv, cfg_file, modes, intervals, pitch_names, mode_lst,
                   root, possible_chords, ci, pk, pl, out, err>>
    /\ UNCHANGED <<resetVars, pitchVars, sepsVars>>

\* return dct; pretty_print_dict(...) starts on the first item
ReturnDct ==
    /\ pc = "for_root"
    /\ ri > Len(mode_lst)
    /\ pc' = "print"
    /\ pk' = 1
    /\ pl' = 1
    /\ UNCHANGED <<argv, cfg_file, modes, intervals, pitch_names, mode_lst,
                   dct, ri, root, possible_chords, ci, out, err>>
    /\ UNCHANGED <<resetVars, pitchVars, sepsVars>>

\* the lines of a group printed in the order they were appended
PrintLineUnsorted ==
    /\ pc = "print"
    /\ pk <= Len(dct)
    /\ LET v == dct[pk].val
       IN  IF pl <= Len(v)
           THEN /\ out' = Append(out, Line(v[pl]))
                /\ IF pl < Len(v)
                   THEN pl' = pl + 1 /\ pk' = pk
                   ELSE pl' = 1 /\ pk' = pk + 1
           ELSE /\ out' = out
                /\ pl' = 1
                /\ pk' = pk + 1
    /\ UNCHANGED <<argv, cfg_file, pc, modes, intervals, pitch_names, mode_lst,
                   dct, ri, root, possible_chords, ci, err>>
    /\ UNCHANGED <<resetVars, pitchVars, sepsVars>>

\* for k, v in chord_dct.items(): for x in sorted(v): print(' - {}'.format(x))
PrintLine ==
    /\ pc = "print"
    /\ pk <= Len(dct)
    /\ LET v == sorted(dct[pk].val)
       IN  IF pl <= Len(v)
           THEN /\ out' = Append(out, Line(v[pl]))
                /\ IF pl < Len(v)
                   THEN pl' = pl + 1 /\ pk' = pk
                   ELSE pl' = 1 /\ pk' = pk + 1
           ELSE /\ out' = out
                /\ pl' = 1
                /\ pk' = pk + 1
    /\ UNCHANGED <<argv, cfg_file, pc, modes, intervals, pitch_names, mode_lst,
                   dct, ri, root, possible_chords, ci, err>>
    /\ UNCHANGED <<resetVars, pitchVars, sepsVars>>

\* chord_finder returns
Finish ==
    /\ pc = "print"
    /\ pk > Len(dct)
    /\ pc' = "done"
    /\ UNCHANGED <<argv, cfg_file, modes, intervals, pitch_names, mode_lst,
                   dct, ri, root, possible_chords, ci, pk, pl, out, err>>
    /\ UNCHANGED <<resetVars, pitchVars, sepsVars>>

MainNext ==
    \/ ProcConfigInfo
    \/ PitchNames
    \/ LookupMode
    \/ ForRoot
    \/ ForIt
    \/ RecordRoot
    \/ ReturnDct
    \/ PrintLine
    \/ Finish

----------------------------------------------------------------------------
(* Specifications *)

Init == ResetIdle /\ PitchIdle /\ SepsIdle /\ MainInit
Next == MainNext
Spec == Init /\ [][Next]_vars

InitReset == ResetInit /\ PitchIdle /\ SepsIdle /\ MainIdle
SpecReset == InitReset /\ [][ResetNext]_vars
FairSpecReset == SpecReset /\ WF_vars(ResetNext)

InitPitch == ResetIdle /\ PitchInit /\ SepsIdle /\ MainIdle
SpecPitch == InitPitch /\ [][PitchNext]_vars

InitSeps == ResetIdle /\ PitchIdle /\ SepsInit /\ MainIdle
SpecSeps == InitSeps /\ [][SepsNext]_vars

----------------------------------------------------------------------------
(* Properties of reset_octave *)

\* C1: for every integer n, reset_octave(n) returns r with 0 <= r <= 11 and
\* r congruent to n modulo 12; the value the loops reach is the value the
\* callers of reset_octave get.
C1_ResetOctaveReduces ==
    rpc = "returned" =>
        /\ num \in 0..11
        /\ (num - num0) % 12 = 0
        /\ reset_octave(num0) = num

C1_Witness == rpc = "returned" /\ num0 = -1 /\ num = 11

\* C9: for every integer input reset_octave returns normally: the
\* 'Not Possible' exception is never raised, every loop iteration moves the
\* value by exactly 12 and strictly toward 0..11, and the call ends.
C9_ResetOctaveTerminates ==
    /\ [](rpc # "raised")
    /\ [][num' # num =>
            \/ (num < 0 /\ num' = num + 12 /\ num' <= 11)
            \/ (num > 11 /\ num' = num - 12 /\ num' >= 0)]_vars
    /\ <>(rpc = "returned")

C9_Witness == rpc = "returned" /\ num0 < -12 /\ num \in 0..11

----------------------------------------------------------------------------
(* Properties of generate_pitch_names *)

----------------------------------------------------------------------------
(* Properties of convert_seps *)

\* C3: for every sequence of n integer separations convert_seps returns n + 1
\* offsets, the first 0 and each next one the previous plus the separation
\* between them (the running sum, not reduced modulo 12).
C3_ConvertSepsPrefixSums ==
    spc = "returned" =>
        /\ Len(sret) = Len(lst) + 1
        /\ sret[1] = 0
        /\ \A i \in 1..Len(lst) : sret[i + 1] = sret[i] + lst[i]

C3_Witness ==
    /\ spc = "returned"
    /\ Len(lst) = MaxSepLen
    /\ sret[Len(sret)] > 11

----------------------------------------------------------------------------
(* Properties of the chord search and the printed output *)

\* get_possible_chords has returned
SearchDone == pc \in {"print", "done"}

Recorded(r, label) ==
    \E i \in 1..Len(dct) : dct[i].key = r /\ label \in Range(dct[i].val)

\* the shape fits at root r when every (r + x) mod 12 is in the set S
FitsIn(r, it, S) == \A x \in Range(it) : ((r + x) % 12) \in S

\* the reduced roots of the mode, each once, in the order first met
RECURSIVE FirstSeen(_, _)
FirstSeen(mode, seen) ==
    IF mode = <<>> THEN <<>>
    ELSE IF (mode[1] % 12) \in seen THEN FirstSeen(Tail(mode), seen)
    ELSE <<mode[1] % 12>> \o FirstSeen(Tail(mode), seen \cup {mode[1] % 12})

\* C4: the label of chord shape t is recorded under key r exactly when r is
\* the reduction of some element of the mode and every reset_octave(r + x),
\* x in t, is an element of the raw mode sequence; r itself need not be.
C4_RecordedIffFits ==
    SearchDone =>
        \A r \in 0..11 : \A e \in Range(intervals) :
            Recorded(r, name_chord(r, e.key, pitch_names, intervals))
                <=> /\ \E m \in Range(mode_lst) : m % 12 = r
                    /\ FitsIn(r, e.key, Range(mode_lst))

C4_Witness ==
    /\ SearchDone
    /\ \E i \in 1..Len(dct) :
          /\ dct[i].key \notin Range(mode_lst)
          /\ \E e \in Range(intervals) :
                /\ 0 \notin Range(e.key)
                /\ name_chord(dct[i].key, e.key, pitch_names, intervals)
                      \in Range(dct[i].val)

C6_FailBeforeOutput ==
    /\ (pc = "failed" \/ err # "none") => out = <<>>
    /\ (pc \in {"print", "done"} \/ out # <<>>) =>
          /\ err = "none"
          /\ cfg_file.present
          /\ argv.mode \in DOMAIN cfg_file.mode_definitions
          /\ argv.pitch \in Range(IF \E i \in 1..Len(argv.pitch) : argv.pitch[i] = 98
                                  THEN FlatNames ELSE SharpNames)

C6_Witness == pc = "failed" /\ err = "mode" /\ out = <<>>

\* the labels of the shapes of the table that fit at root r, as a set
FitLabelSet(r) ==
    {name_chord(r, e.key, pitch_names, intervals) :
        e \in {e \in Range(intervals) : FitsIn(r, e.key, Range(mode_lst))}}

\* the one strictly ascending arrangement of a set of strings
Ascending(S) ==
    CHOOSE s \in [1..Cardinality(S) -> S] :
        /\ Range(s) = S
        /\ \A i, j \in 1..Len(s) : i < j => StrLess(s[i], s[j])

RECURSIVE ExpectedLines(_)
ExpectedLines(roots) ==
    IF roots = <<>> THEN <<>>
    ELSE LET a == Ascending(FitLabelSet(roots[1]))
         IN  [i \in 1..Len(a) |-> Line(a[i])] \o ExpectedLines(Tail(roots))

RECURSIVE CountLabels(_)
CountLabels(d) == IF d = <<>> THEN 0 ELSE Len(d[1].val) + CountLabels(Tail(d))

\* C7: the output is one line per recorded (root, label) pair, grouped by
\* root in the order the reduced roots were first met in the mode, each group
\* in lexicographic order: it is a function of the mode, the pitch mapping
\* and the set of chord definitions, whatever the order of the chord table.
C7_OutputOrderIndependent ==
    pc = "done" =>
        /\ Len(out) = CountLabels(dct)
        /\ out = ExpectedLines(FirstSeen(mode_lst, {}))

C7_Witness ==
    /\ pc = "done"
    /\ Len(dct) >= 2
    /\ \E i \in 1..Len(dct) : \E a, b \in 1..Len(dct[i].val) :
          a < b /\ StrLess(dct[i].val[b], dct[i].val[a])

\* C8: when the raw mode contains every value 0..11 and the table has the
\* shape (4, 7), every root 0..11 has an entry containing that shape's label.
C8_ChromaticHasEveryTriad ==
    (/\ SearchDone
     /\ \A k \in 0..11 : k \in Range(mode_lst)
     /\ HasKey(intervals, <<4, 7>>)) =>
        \A r \in 0..11 :
            /\ HasKey(dct, r)
            /\ name_chord(r, <<4, 7>>, pitch_names, intervals)
                  \in Range(DictGet(dct, r))

C8_Witness ==
    /\ SearchDone
    /\ \A k \in 0..11 : k \in Range(mode_lst)
    /\ HasKey(intervals, <<4, 7>>)
    /\ Len(dct) = 12

\* the labels, in table order, of the shapes that fit at r within S
RECURSIVE FitLabels(_, _, _)
FitLabels(r, S, i) ==
    IF i > Len(intervals) THEN <<>>
    ELSE (IF FitsIn(r, intervals[i].key, S)
          THEN <<name_chord(r, intervals[i].key, pitch_names, intervals)>>
          ELSE <<>>) \o FitLabels(r, S, i + 1)

\* the result of a search that tests membership in S
RECURSIVE SearchIn(_, _)
SearchIn(roots, S) ==
    IF roots = <<>> THEN <<>>
    ELSE (IF FitLabels(roots[1], S, 1) # <<>>
          THEN <<[key |-> roots[1], val |-> FitLabels(roots[1], S, 1)]>>
          ELSE <<>>) \o SearchIn(Tail(roots), S)

ReducedResult ==
    SearchIn(FirstSeen(mode_lst, {}), {m % 12 : m \in Range(mode_lst)})

\* strictly positive separations that sum to 12: offsets rise from 0 to 12
ProperOctave(mode) ==
    /\ mode[1] = 0
    /\ mode[Len(mode)] = 12
    /\ \A i \in 1..(Len(mode) - 1) : mode[i] < mode[i + 1]

\* C10: for a mode of strictly positive separations summing to 12 the search
\* against the raw offsets gives exactly the result of the search against the
\* offsets reduced modulo 12, and handling the root 12 leaves the result as
\* it was; for a mode with an offset m above 11 whose reduction s is not a
\* raw offset the two differ as soon as the table has the shape (s).
C10_RawEqualsReducedOnProperOctave ==
    /\ []((SearchDone /\ ProperOctave(mode_lst)) => dct = ReducedResult)
    /\ [][(/\ pc = "for_it" /\ pc' = "for_root"
           /\ ProperOctave(mode_lst) /\ mode_lst[ri] = 12) => dct' = dct]_vars
    /\ []((/\ SearchDone
           /\ 0 \in Range(mode_lst)
           /\ \E m \in Range(mode_lst) :
                 /\ m > 11
                 /\ (m % 12) \notin Range(mode_lst)
                 /\ HasKey(intervals, <<m % 12>>))
          => dct # ReducedResult)

C10_Witness ==
    /\ pc = "for_root"
    /\ ProperOctave(mode_lst)
    /\ ri = Len(mode_lst) + 1
    /\ HasKey(dct, 0)

====
